---- MODULE Spec2Model ----
(***************************************************************************)
(* Model of the query-result patch engine of evolu: createPatches (the     *)
(* differencer) and applyPatches (the applier), together with a producer   *)
(* that diffs successive query results and a holder that replays the       *)
(* emitted patches on its own copy.                                        *)
(*                                                                         *)
(* Three specifications share the variables:                               *)
(*   SpecDiff  - createPatches on every (previous, next) of the bounded    *)
(*               input universe, then applyPatches of its output;          *)
(*   SpecApply - applyPatches on every bounded patch sequence and held     *)
(*               result, with the arrays kept in a heap so that in-place   *)
(*               mutation is observable;                                   *)
(*   Spec      - the producer / transport / holder loop.                   *)
(***************************************************************************)
EXTENDS Integers, Sequences, FiniteSets, TLC

VARIABLES
    pc,        \* position of the harness: "start", "diffed", "folding", "applied", "sync"
    previous,  \* createPatches' first argument (a held result, or Unknown for undefined)
    next,      \* createPatches' second argument
    patches,   \* the patch sequence createPatches returned / applyPatches is given
    result,    \* what applyPatches returned
    current,   \* applyPatches' held result as it was when the call was made
    heap,      \* the arrays allocated so far
    cur,       \* the reference the caller (and any other holder) keeps to current
    out,       \* the accumulator a of the reduce, a reference or 0
    was,       \* the accumulator before the latest reducer call
    todo,      \* the patches the reduce has not visited yet
    last,      \* producer: the last result it diffed against
    held,      \* holder: its copy of the result
    inflight   \* patch sequences emitted and not yet applied, oldest first

vars == <<pc, previous, next, patches, result, current, heap, cur, out, was, todo,
          last, held, inflight>>

(***************************************************************************)
(* Bounds of the model.                                                    *)
(***************************************************************************)
\* longest result set drawn as an input of createPatches
MaxLen == 3
\* longest result set drawn as an input of applyPatches in SpecApply
MaxApplyLen == 2
\* longest patch sequence handed to applyPatches in SpecApply
MaxPatches == 2
\* longest result set the producer's query returns in Spec
MaxQueryLen == 2
\* most patch sequences in flight between producer and holder
MaxInflight == 2

(***************************************************************************)
(* Data model.  A SQLiteRowRecord is a JavaScript object: field name ->    *)
(* value.  It is encoded as a total function over Fields in which Absent   *)
(* stands for "the object has no such property"; reading an absent         *)
(* property yields undefined, which is !== to every SQLite value.  A value  *)
(* is a tagged string, so the number 1 and the string "1" are different    *)
(* values, as under !== (no coercion).                                     *)
(***************************************************************************)
Fields == {"a", "b"}

Absent == "absent"

\* the values each column may hold in the drawn inputs; a row has column b
\* only if it has column a, which leaves the rows {}, {a}, {a, b}
FieldValues == [a |-> {"num:1", "str:1"}, b |-> {"null"}]

Rows == {r \in [Fields -> {"num:1", "str:1", "null", Absent}] :
            /\ \A k \in Fields : r[k] \in FieldValues[k] \cup {Absent}
            /\ (r["a"] = Absent => r["b"] = Absent)}

\* an array slot that was never assigned (reads as undefined)
Hole == [k \in Fields |-> "hole"]

Keys(row) == {k \in Fields : row[k] /= Absent}

ResultSets == UNION {[1..n -> Rows] : n \in 0..MaxLen}

\* readonly SQLiteRowRecord[] | undefined
Unknown == [known |-> FALSE, rows |-> <<>>]

Known(rows) == [known |-> TRUE, rows |-> rows]

HeldResults == {Unknown} \cup {Known(rs) : rs \in ResultSets}

NoRow == [k \in Fields |-> Absent]

\* the three cases of Patch; index is 0-based as in the source
ReplaceAllPatch(value) == [op |-> "replaceAll", rows |-> value, row |-> NoRow, index |-> 0]

ReplaceAtPatch(index, value) == [op |-> "replaceAt", rows |-> <<>>, row |-> value, index |-> index]

PurgePatch == [op |-> "purge", rows |-> <<>>, row |-> NoRow, index |-> 0]

(***************************************************************************)
(* createPatches                                                           *)
(***************************************************************************)
\* faulty variant: the comparison inverted (=== for !==)
RowChanged_inverted(pItem, nItem) == \E key \in Keys(pItem) : pItem[key] = nItem[key]

\* for (const key in pItem) if (pItem[key] !== nItem[key]) { push; break }
RowChanged(pItem, nItem) == \E key \in Keys(pItem) : pItem[key] /= nItem[key]

\* faulty variant: the previous row pushed instead of the next one
ReplaceAtOp_previous(i, pItem, nItem) == ReplaceAtPatch(i, pItem)

\* replaceAtOps.push({ op: "replaceAt", value: nItem, index: i })
ReplaceAtOp(i, pItem, nItem) == ReplaceAtPatch(i, nItem)

RECURSIVE replaceAtLoop(_, _, _, _)
\* the loop over i = 0 .. previous.length - 1, ops being replaceAtOps so far
replaceAtLoop(prev, nxt, i, ops) ==
    IF i >= Len(prev) THEN ops
    ELSE LET pItem == prev[i + 1]
             nItem == nxt[i + 1]
         IN  replaceAtLoop(prev, nxt, i + 1,
                 IF RowChanged(pItem, nItem)
                 THEN Append(ops, ReplaceAtOp(i, pItem, nItem))
                 ELSE ops)

\* faulty variant: undefined treated like an empty previous result
createPatches_unknownAsEmpty(prev, nxt) ==
    LET p == IF prev.known THEN prev.rows ELSE <<>> IN
    IF Len(p) = 0 /\ Len(nxt) = 0 THEN <<>>
    ELSE IF Len(p) /= Len(nxt) THEN <<ReplaceAllPatch(nxt)>>
    ELSE LET replaceAtOps == replaceAtLoop(p, nxt, 0, <<>>) IN
         IF Len(replaceAtOps) = 0 THEN <<>>
         ELSE IF Len(replaceAtOps) = Len(p) THEN <<ReplaceAllPatch(nxt)>>
         ELSE replaceAtOps

\* faulty variant: only a shrinking result is replaced as a whole; a grown one is
\* compared over the rows previous has
createPatches_growCompared(prev, nxt) ==
    IF ~prev.known THEN <<ReplaceAllPatch(nxt)>>
    ELSE IF Len(prev.rows) = 0 /\ Len(nxt) = 0 THEN <<>>
    ELSE IF Len(prev.rows) > Len(nxt) THEN <<ReplaceAllPatch(nxt)>>
    ELSE LET replaceAtOps == replaceAtLoop(prev.rows, nxt, 0, <<>>) IN
         IF Len(replaceAtOps) = 0 THEN <<>>
         ELSE IF Len(replaceAtOps) = Len(prev.rows) THEN <<ReplaceAllPatch(nxt)>>
         ELSE replaceAtOps

\* faulty variant: no collapse of "every row changed" into one replaceAll
createPatches_noCollapse(prev, nxt) ==
    IF ~prev.known THEN <<ReplaceAllPatch(nxt)>>
    ELSE IF Len(prev.rows) = 0 /\ Len(nxt) = 0 THEN <<>>
    ELSE IF Len(prev.rows) /= Len(nxt) THEN <<ReplaceAllPatch(nxt)>>
    ELSE replaceAtLoop(prev.rows, nxt, 0, <<>>)

\* faulty variant: the whole result is sent along with the point patches
createPatches_mixed(prev, nxt) ==
    IF ~prev.known THEN <<ReplaceAllPatch(nxt)>>
    ELSE IF Len(prev.rows) = 0 /\ Len(nxt) = 0 THEN <<>>
    ELSE IF Len(prev.rows) /= Len(nxt) THEN <<ReplaceAllPatch(nxt)>>
    ELSE LET replaceAtOps == replaceAtLoop(prev.rows, nxt, 0, <<>>) IN
         IF Len(replaceAtOps) = 0 THEN <<>>
         ELSE IF Len(replaceAtOps) = Len(prev.rows) THEN <<ReplaceAllPatch(nxt)>>
         ELSE <<ReplaceAllPatch(nxt)>> \o replaceAtOps

createPatches(prev, nxt) ==
    IF ~prev.known THEN <<ReplaceAllPatch(nxt)>>
    ELSE IF Len(prev.rows) = 0 /\ Len(nxt) = 0 THEN <<>>
    ELSE IF Len(prev.rows) /= Len(nxt) THEN <<ReplaceAllPatch(nxt)>>
    ELSE LET replaceAtOps == replaceAtLoop(prev.rows, nxt, 0, <<>>) IN
         IF Len(replaceAtOps) = 0 THEN <<>>
         ELSE IF Len(replaceAtOps) = Len(prev.rows) THEN <<ReplaceAllPatch(nxt)>>
         ELSE replaceAtOps

(***************************************************************************)
(* applyPatches.  Arrays live in a heap (a sequence of arrays); a          *)
(* reference is an index into it and 0 is undefined.  The fold state is    *)
(* [heap, a]: the heap and the accumulator a of patches.reduce.            *)
(***************************************************************************)
\* next[index] = value on a JavaScript array: an index at or past the end
\* extends the array, leaving holes in between
ArraySet(arr, index, value) ==
    IF index < Len(arr) THEN [arr EXCEPT ![index + 1] = value]
    ELSE arr \o [j \in 1..(index - Len(arr)) |-> Hole] \o <<value>>

\* faulty variant: the held array written in place, no copy
replaceAtStep_inPlace(st, patch) ==
    IF st.a = 0 THEN st
    ELSE [heap |-> [st.heap EXCEPT ![st.a] = ArraySet(st.heap[st.a], patch.index, patch.row)],
          a |-> st.a]

\* faulty variant: a point patch on undefined starts a new array
replaceAtStep_onUndefined(st, patch) ==
    LET a == IF st.a = 0 THEN <<>> ELSE st.heap[st.a] IN
    [heap |-> Append(st.heap, ArraySet(a, patch.index, patch.row)),
     a |-> Len(st.heap) + 1]

\* case "replaceAt": if (a === undefined) return a; const next = [...a];
\* next[patch.index] = patch.value; return next
replaceAtStep(st, patch) ==
    IF st.a = 0 THEN st
    ELSE [heap |-> Append(st.heap, ArraySet(st.heap[st.a], patch.index, patch.row)),
          a |-> Len(st.heap) + 1]

\* one call of the reducer: switch (patch.op)
applyStep(st, patch) ==
    CASE patch.op = "replaceAll" ->
             \* return patch.value: the patch's own array, a distinct object
             [heap |-> Append(st.heap, patch.rows), a |-> Len(st.heap) + 1]
      [] patch.op = "replaceAt" -> replaceAtStep(st, patch)
      [] patch.op = "purge" -> [heap |-> st.heap, a |-> 0]

RECURSIVE reduce(_, _)
\* patches.reduce(reducer, current), left to right
reduce(ps, st) == IF ps = <<>> THEN st ELSE reduce(Tail(ps), applyStep(st, Head(ps)))

\* applyPatches(patches)(current) on values
applyPatches(ps, curr) ==
    LET st0 == IF curr.known THEN [heap |-> <<curr.rows>>, a |-> 1]
               ELSE [heap |-> <<>>, a |-> 0]
        r == reduce(ps, st0)
    IN  IF r.a = 0 THEN Unknown ELSE Known(r.heap[r.a])

(***************************************************************************)
(* SpecDiff: createPatches on every bounded (previous, next), followed by  *)
(* applyPatches of the patches it returned on that same previous.          *)
(***************************************************************************)
InitDiff ==
    /\ pc = "start"
    /\ previous \in HeldResults
    /\ next \in ResultSets
    /\ patches = <<>>
    /\ result = Unknown
    /\ current = Unknown
    /\ heap = <<>>
    /\ cur = 0
    /\ out = 0
    /\ was = 0
    /\ todo = <<>>
    /\ last = Unknown
    /\ held = Unknown
    /\ inflight = <<>>

Diff ==
    /\ pc = "start"
    /\ patches' = createPatches(previous, next)
    /\ pc' = "diffed"
    /\ UNCHANGED <<previous, next, result, current, heap, cur, out, was, todo,
                   last, held, inflight>>

ApplyOwn ==
    /\ pc = "diffed"
    /\ result' = applyPatches(patches, previous)
    /\ pc' = "applied"
    /\ UNCHANGED <<previous, next, patches, current, heap, cur, out, was, todo,
                   last, held, inflight>>

NextDiff == Diff \/ ApplyOwn

SpecDiff == InitDiff /\ [][NextDiff]_vars

(***************************************************************************)
(* SpecApply: applyPatches on every bounded patch sequence and held        *)
(* result, one reducer call per step.  Patch indices run past the end of   *)
(* the longest array, so out-of-range point patches are among the inputs.  *)
(***************************************************************************)
ApplyRows == {r \in Rows : r["a"] /= Absent /\ r["b"] = Absent}

ApplyResults == UNION {[1..n -> ApplyRows] : n \in 0..MaxApplyLen}

ApplyPatchSet ==
    {PurgePatch}
    \cup {ReplaceAllPatch(v) : v \in ApplyResults}
    \cup {ReplaceAtPatch(i, r) : i \in 0..MaxApplyLen, r \in ApplyRows}

PatchSeqs == UNION {[1..n -> ApplyPatchSet] : n \in 0..MaxPatches}

InitApply ==
    /\ pc = "folding"
    /\ current \in {Unknown} \cup {Known(rs) : rs \in ApplyResults}
    /\ patches \in PatchSeqs
    /\ todo = patches
    /\ heap = IF current.known THEN <<current.rows>> ELSE <<>>
    /\ cur = IF current.known THEN 1 ELSE 0
    /\ out = cur
    /\ was = cur
    /\ result = Unknown
    /\ previous = Unknown
    /\ next = <<>>
    /\ last = Unknown
    /\ held = Unknown
    /\ inflight = <<>>

ReduceStep ==
    /\ pc = "folding"
    /\ todo /= <<>>
    /\ LET st == applyStep([heap |-> heap, a |-> out], Head(todo)) IN
          /\ heap' = st.heap
          /\ out' = st.a
    /\ was' = out
    /\ todo' = Tail(todo)
    /\ UNCHANGED <<pc, previous, next, patches, result, current, cur, last, held, inflight>>

ReduceDone ==
    /\ pc = "folding"
    /\ todo = <<>>
    /\ result' = IF out = 0 THEN Unknown ELSE Known(heap[out])
    /\ pc' = "applied"
    /\ UNCHANGED <<previous, next, patches, current, heap, cur, out, was, todo,
                   last, held, inflight>>

NextApply == ReduceStep \/ ReduceDone

SpecApply == InitApply /\ [][NextApply]_vars

(***************************************************************************)
(* Spec: the producer re-runs its query, diffs the new result against the  *)
(* last one and emits the patches; the holder applies every emitted patch  *)
(* sequence once, in order.                                                *)
(***************************************************************************)
Init ==
    /\ pc = "sync"
    /\ last = Unknown
    /\ held = Unknown
    /\ inflight = <<>>
    /\ previous = Unknown
    /\ next = <<>>
    /\ patches = <<>>
    /\ result = Unknown
    /\ current = Unknown
    /\ heap = <<>>
    /\ cur = 0
    /\ out = 0
    /\ was = 0
    /\ todo = <<>>

QueryResults == UNION {[1..n -> Rows] : n \in 0..MaxQueryLen}

Query ==
    /\ Len(inflight) < MaxInflight
    /\ \E nxt \in QueryResults :
          /\ inflight' = Append(inflight, createPatches(last, nxt))
          /\ last' = Known(nxt)
    /\ UNCHANGED <<pc, previous, next, patches, result, current, heap, cur, out, was,
                   todo, held>>

Deliver ==
    /\ inflight /= <<>>
    /\ held' = applyPatches(Head(inflight), held)
    /\ inflight' = Tail(inflight)
    /\ UNCHANGED <<pc, previous, next, patches, result, current, heap, cur, out, was,
                   todo, last>>

Next == Query \/ Deliver

Spec == Init /\ [][Next]_vars

(***************************************************************************)
(* Properties of createPatches, checked under SpecDiff.                    *)
(***************************************************************************)
\* createPatches has returned
Diffed == pc \in {"diffed", "applied"}

\* the 0-based indices whose row changed, stated on the rows themselves: some
\* field name present in previous[i] maps to a value unequal to next[i]'s
ChangedIdx ==
    {i \in 0..(Len(next) - 1) :
        \E k \in Fields : /\ previous.rows[i + 1][k] /= Absent
                          /\ previous.rows[i + 1][k] /= next[i + 1][k]}

\* C1: apply round-trip: for every previous (Unknown or concrete) and every
\* next, rows carrying any field sets, applying createPatches(previous, next)
\* to previous yields next, row for row and field for field.
C1_RoundTrip == pc = "applied" => result = Known(next)

\* Supporting fact for C1: the round trip does hold on the inputs in which no
\* row of next has a field name its counterpart in previous lacks.
RoundTripNoAddedField ==
    (/\ pc = "applied"
     /\ previous.known /\ Len(previous.rows) = Len(next)
        => \A i \in 1..Len(next) : Keys(next[i]) \subseteq Keys(previous.rows[i]))
    => result = Known(next)

\* C2: unknown previous: createPatches(Unknown, next) is exactly
\* [ReplaceAll(next)], for the empty next too.
C2_UnknownPrevious ==
    (Diffed /\ ~previous.known) => patches = <<ReplaceAllPatch(next)>>

C2_Witness ==
    /\ pc = "diffed" /\ ~previous.known /\ next = <<>>
    /\ patches = <<ReplaceAllPatch(<<>>)>>

\* C3: length change: for concrete previous and next of different lengths,
\* createPatches is exactly [ReplaceAll(next)] and holds no ReplaceAt.
C3_LengthChange ==
    (Diffed /\ previous.known /\ Len(previous.rows) /= Len(next))
    => /\ patches = <<ReplaceAllPatch(next)>>
       /\ \A j \in 1..Len(patches) : patches[j].op /= "replaceAt"

C3_Witness ==
    /\ pc = "diffed" /\ previous.known
    /\ Len(previous.rows) = 1 /\ Len(next) = 2
    /\ next[1] = previous.rows[1]
    /\ patches = <<ReplaceAllPatch(next)>>

\* C4: no change: for concrete previous and next of equal length (zero
\* included) whose rows are equal index by index, field by field,
\* createPatches is the empty sequence.
C4_NoChange ==
    (/\ Diffed /\ previous.known /\ Len(previous.rows) = Len(next)
     /\ \A i \in 1..Len(next) : \A k \in Fields : previous.rows[i][k] = next[i][k])
    => patches = <<>>

C4_Witness ==
    /\ pc = "diffed" /\ previous.known
    /\ Len(next) >= 2 /\ previous.rows = next
    /\ \A i \in 1..Len(next) : Keys(next[i]) = Fields
    /\ patches = <<>>

C6_PartialChange ==
    (/\ Diffed /\ previous.known /\ Len(previous.rows) = Len(next)
     /\ ChangedIdx /= {}
     /\ ChangedIdx /= 0..(Len(next) - 1))
    => /\ Len(patches) = Cardinality(ChangedIdx)
       /\ \A j \in 1..Len(patches) :
             /\ patches[j].op = "replaceAt"
             /\ patches[j].index \in ChangedIdx
             /\ patches[j].row = next[patches[j].index + 1]
       /\ \A j \in 1..(Len(patches) - 1) : patches[j].index < patches[j + 1].index
       /\ \A i \in ChangedIdx : \E j \in 1..Len(patches) : patches[j].index = i

C6_Witness ==
    /\ pc = "diffed" /\ previous.known
    /\ Len(previous.rows) = 3 /\ Len(next) = 3
    /\ ChangedIdx = {0, 2}
    /\ patches = <<ReplaceAtPatch(0, next[1]), ReplaceAtPatch(2, next[3])>>

\* C9: output shape: createPatches never returns a Purge, and returns the
\* empty sequence, or [ReplaceAll(next)] alone, or a non-empty sequence of
\* ReplaceAt only, with strictly ascending indices in 0..length(next)-1,
\* fewer entries than length(next), each carrying next's row at its index.
C9_OutputShape ==
    Diffed =>
      /\ \A j \in 1..Len(patches) : patches[j].op /= "purge"
      /\ \/ patches = <<>>
         \/ patches = <<ReplaceAllPatch(next)>>
         \/ /\ Len(patches) >= 1
            /\ Len(patches) < Len(next)
            /\ \A j \in 1..Len(patches) :
                  /\ patches[j].op = "replaceAt"
                  /\ patches[j].index \in 0..(Len(next) - 1)
                  /\ patches[j].row = next[patches[j].index + 1]
            /\ \A j \in 1..(Len(patches) - 1) : patches[j].index < patches[j + 1].index

C9_Witness ==
    /\ pc = "diffed" /\ previous.known
    /\ Len(next) = 3
    /\ Len(patches) = 2
    /\ patches[1].op = "replaceAt" /\ patches[1].index = 1
    /\ patches[2].op = "replaceAt" /\ patches[2].index = 2

(***************************************************************************)
(* Properties of applyPatches, checked under SpecApply.                    *)
(***************************************************************************)
\* how many patches the reduce has visited
Visited == Len(patches) - Len(todo)

\* C7: applier state rules: a ReplaceAt step on an Unknown fold state leaves
\* it Unknown; a ReplaceAll(v) step makes it v and a Purge step makes it
\* Unknown whatever it was; so only-ReplaceAt sequences applied to Unknown
\* return Unknown, a sequence ending in Purge returns Unknown and one ending
\* in ReplaceAll(v) returns v, whatever the initial held result.
C7_ApplierStateRules ==
    /\ Visited >= 1 =>
         LET p == patches[Visited] IN
           /\ (p.op = "replaceAt" /\ was = 0) => out = 0
           /\ p.op = "replaceAll" => (out /= 0 /\ heap[out] = p.rows)
           /\ p.op = "purge" => out = 0
    /\ pc = "applied" =>
         /\ (~current.known /\ \A j \in 1..Len(patches) : patches[j].op = "replaceAt")
               => result = Unknown
         /\ Len(patches) >= 1 =>
              LET lastPatch == patches[Len(patches)] IN
                /\ lastPatch.op = "purge" => result = Unknown
                /\ lastPatch.op = "replaceAll" => result = Known(lastPatch.rows)

C7_Witness ==
    /\ pc = "applied" /\ current.known /\ Len(current.rows) >= 1
    /\ Len(patches) = 2
    /\ patches[1].op = "purge" /\ patches[2].op = "replaceAt"
    /\ result = Unknown

\* C8: ReplaceAt is a non-mutating point update: for a concrete current and
\* ReplaceAt(i, v) with 0 <= i < length(current), applyPatches returns a new
\* result set of the same length whose row i is v and whose other rows are
\* current's, and the array the caller holds is unchanged at every index.
C8_NonMutatingPointUpdate ==
    (/\ pc = "applied" /\ current.known
     /\ Len(patches) = 1 /\ patches[1].op = "replaceAt"
     /\ patches[1].index < Len(current.rows))
    => LET i == patches[1].index + 1 IN
         /\ result.known
         /\ out /= cur
         /\ Len(result.rows) = Len(current.rows)
         /\ result.rows[i] = patches[1].row
         /\ \A j \in 1..Len(current.rows) : j /= i => result.rows[j] = current.rows[j]
         /\ heap[cur] = current.rows

C8_Witness ==
    /\ pc = "applied" /\ current.known
    /\ Len(current.rows) = 2
    /\ Len(patches) = 1 /\ patches[1].op = "replaceAt" /\ patches[1].index = 1
    /\ patches[1].row /= current.rows[2]
    /\ result.known /\ result.rows[2] = patches[1].row

(***************************************************************************)
(* Property of the producer / holder loop, checked under Spec.             *)
(***************************************************************************)
\* C10: holder stays in sync: once every emitted patch sequence has been
\* applied, the holder's held result equals the producer's last result.
C10_HolderInSync == inflight = <<>> => held = last

====
